---- MODULE Spec2Model ----
(***************************************************************************)
(* A model of the CHIP-8 interpreter of src/chip8.c: the machine object    *)
(* chip8_t, the loader init_chip8, the input handler handle_input, the     *)
(* instruction interpreter emulate_instruction, update_timers and the      *)
(* frame loop of main.                                                     *)
(***************************************************************************)
EXTENDS Integers, Sequences, FiniteSets, TLC

VARIABLES
    chip8,    \* the machine object (chip8_t), one field per struct member
    rom,      \* the ROM file named on the command line (environment)
    loc,      \* position of main: "init", "loop", "batch", "exit_failure", "exit_success"
    i,        \* the counter of the instruction batch loop of main
    frames,   \* number of frames completed (bounds the exploration)
    oob       \* array accesses made outside the array's bounds so far

vars == <<chip8, rom, loc, i, frames, oob>>

----------------------------------------------------------------------------
(* Program constants *)

SCREEN_WIDTH == 64
SCREEN_HEIGHT == 32
RAM_SIZE == 4096
STACK_SIZE == 12
entry_point == 512
insts_per_second == 500
FRAME_RATE == 60
KEY_SCAN_END == 15

(* Bounds of the exploration *)

MaxFrames == 2
MaxEvents == 1

----------------------------------------------------------------------------
(* Fixed-width arithmetic *)

U8(n) == n % 256
U16(n) == n % 65536
MIN(a, b) == IF a < b THEN a ELSE b

Pow2(k) == 2 ^ k
Bit(v, k) == (v \div Pow2(k)) % 2

Sum8(f) == f[0] + 2 * f[1] + 4 * f[2] + 8 * f[3]
           + 16 * f[4] + 32 * f[5] + 64 * f[6] + 128 * f[7]
BitAnd(a, b) == Sum8([k \in 0..7 |-> Bit(a, k) * Bit(b, k)])
BitOr(a, b) == Sum8([k \in 0..7 |-> IF Bit(a, k) + Bit(b, k) > 0 THEN 1 ELSE 0])
BitXor(a, b) == Sum8([k \in 0..7 |-> (Bit(a, k) + Bit(b, k)) % 2])

----------------------------------------------------------------------------
(* The built-in font, 16 glyphs of 5 bytes *)

font ==
    << 240, 144, 144, 144, 240,   32,  96,  32,  32, 112,
       240,  16, 240, 128, 240,  240,  16, 240,  16, 240,
       144, 144, 240,  16,  16,  240, 128, 240,  16, 240,
       240, 128, 240, 144, 240,  240,  16,  32,  64,  64,
       240, 144, 240, 144, 240,  240, 144, 240,  16, 240,
       240, 144, 240, 144, 144,  224, 144, 224, 144, 224,
       240, 128, 128, 128, 240,  224, 144, 144, 144, 224,
       240, 128, 240, 128, 240,  240, 128, 240, 128, 128 >>

----------------------------------------------------------------------------
(* Instruction decoding *)

Decode(opcode) ==
    [ opcode |-> opcode,
      NNN    |-> opcode % 4096,
      NN     |-> opcode % 256,
      N      |-> opcode % 16,
      X      |-> (opcode \div 256) % 16,
      Y      |-> (opcode \div 16) % 16 ]

Family(in) == (in.opcode \div 4096) % 16

NoInst == Decode(0)

----------------------------------------------------------------------------
(* Values an out-of-bounds read may deliver, and values rand() may deliver *)

UBBytes == {0, 1, 255}
UBWords == {0, 514, 65535}
RandValues == {0, 90, 255}

(* ram[addr], where a read past the end of ram delivers any byte *)
ReadRam(ram, junk, addr) == IF addr < RAM_SIZE THEN ram[addr] ELSE junk[addr]

(* The instruction word at PC: big-endian, ram[PC] << 8 | ram[PC + 1] *)
FetchChoices(c) ==
    { hi * 256 + lo :
        hi \in (IF c.PC < RAM_SIZE THEN {c.ram[c.PC]} ELSE UBBytes),
        lo \in (IF c.PC + 1 < RAM_SIZE THEN {c.ram[c.PC + 1]} ELSE UBBytes) }

----------------------------------------------------------------------------
(* DXYN: the sprite blit *)

x_start(c, in) == c.V[in.X] % SCREEN_WIDTH
y_start(c, in) == c.V[in.Y] % SCREEN_HEIGHT
(* Mutant: the row is not clipped at the right edge *)
x_end_noclip(c, in) == U8(x_start(c, in) + 8)

x_end(c, in) == U8(MIN(x_start(c, in) + 8, SCREEN_WIDTH))
y_end(c, in) == U8(MIN(y_start(c, in) + in.N, SCREEN_HEIGHT))

(* sprite_byte & (0x80 >> col) *)
sprite_bit(sprite_byte, col) == col \in 0..7 /\ Bit(sprite_byte, 7 - col) = 1

(* The iterations <<y, x>> of the two nested loops *)
DrawIterations(c, in) ==
    { <<y, x>> \in (y_start(c, in) .. y_end(c, in) - 1)
                   \X (x_start(c, in) .. x_end(c, in) - 1) : TRUE }

(* The sprite byte the row loop reads for screen row y *)
SpriteByte(c, in, junk, y) == ReadRam(c.ram, junk, c.I + (y - y_start(c, in)))

(* The cells the blit toggles: index = y * SCREEN_WIDTH + x, *pixel ^= sprite_bit *)
DrawToggles(c, in, junk) ==
    LET lit == { p \in DrawIterations(c, in) :
                   sprite_bit(SpriteByte(c, in, junk, p[1]), p[2] - x_start(c, in)) }
        cells == { p[1] * SCREEN_WIDTH + p[2] : p \in lit }
    IN  { idx \in cells :
            Cardinality({ p \in lit : p[1] * SCREEN_WIDTH + p[2] = idx }) % 2 = 1 }

DrawDisplay(c, in, junk) ==
    LET toggles == DrawToggles(c, in, junk)
    IN  [ idx \in DOMAIN c.display |-> c.display[idx] # (idx \in toggles) ]

(* The value the draw leaves in VF *)
DrawFlag(c, in, junk) == 0

Draw(c, in, junk) ==
    [ c EXCEPT !.display = DrawDisplay(c, in, junk),
               !.V = [ c.V EXCEPT ![15] = DrawFlag(c, in, junk) ] ]

----------------------------------------------------------------------------
(* 8XYN: register arithmetic.  Each writes VF first and VX afterwards, as  *)
(* the source does, so the second statement reads the registers the first  *)
(* one left.                                                               *)

AddRegisters(V, X, Y) ==
    LET sum == V[X] + V[Y]
        V1 == [ V EXCEPT ![15] = IF sum > 255 THEN 1 ELSE 0 ]
    IN  [ V1 EXCEPT ![X] = U8(V1[X] + V1[Y]) ]

SubRegisters(V, X, Y) ==
    LET V1 == [ V EXCEPT ![15] = IF V[X] >= V[Y] THEN 1 ELSE 0 ]
    IN  [ V1 EXCEPT ![X] = U8(256 + V1[X] - V1[Y]) ]

(* Mutant: the flag is taken from VX after the shift *)
ShiftRight_flagAfter(V, X) ==
    LET V1 == [ V EXCEPT ![X] = V[X] \div 2 ]
    IN  [ V1 EXCEPT ![15] = V1[X] % 2 ]

ShiftRight(V, X) ==
    LET V1 == [ V EXCEPT ![15] = V[X] % 2 ]
    IN  [ V1 EXCEPT ![X] = V1[X] \div 2 ]

SubReverse(V, X, Y) ==
    LET V1 == [ V EXCEPT ![15] = IF V[Y] > V[X] THEN 1 ELSE 0 ]
    IN  [ V1 EXCEPT ![X] = U8(256 + V1[Y] - V1[X]) ]

ShiftLeft(V, X) ==
    LET V1 == [ V EXCEPT ![15] = (V[X] \div 128) % 2 ]
    IN  [ V1 EXCEPT ![X] = U8(V1[X] * 2) ]

Alu(V, in) ==
    CASE in.N = 0 -> [ V EXCEPT ![in.X] = V[in.Y] ]
      [] in.N = 1 -> [ V EXCEPT ![in.X] = BitOr(V[in.X], V[in.Y]) ]
      [] in.N = 2 -> [ V EXCEPT ![in.X] = BitAnd(V[in.X], V[in.Y]) ]
      [] in.N = 3 -> [ V EXCEPT ![in.X] = BitXor(V[in.X], V[in.Y]) ]
      [] in.N = 4 -> AddRegisters(V, in.X, in.Y)
      [] in.N = 5 -> SubRegisters(V, in.X, in.Y)
      [] in.N = 6 -> ShiftRight(V, in.X)
      [] in.N = 7 -> SubReverse(V, in.X, in.Y)
      [] in.N = 14 -> ShiftLeft(V, in.X)
      [] OTHER -> V

----------------------------------------------------------------------------
(* FX0A: the keypad scan, for (key = 0; key < 0xF; key++); -1 when no key  *)
(* of the scanned range is pressed                                         *)

KeyScan(keypad) ==
    LET pressed == { key \in 0 .. KEY_SCAN_END - 1 : keypad[key] }
    IN  IF pressed = {} THEN -1
        ELSE CHOOSE key \in pressed : \A other \in pressed : key <= other

(* Mutant: PC is not rewound when no key is found *)
WaitKey_norewind(c, in) ==
    LET key == KeyScan(c.keypad)
    IN  IF key # -1 THEN [ c EXCEPT !.V = [ c.V EXCEPT ![in.X] = key ] ] ELSE c

WaitKey(c, in) ==
    LET key == KeyScan(c.keypad)
    IN  IF key # -1
        THEN [ c EXCEPT !.V = [ c.V EXCEPT ![in.X] = key ] ]
        ELSE [ c EXCEPT !.PC = U16(c.PC - 2 + 65536) ]

----------------------------------------------------------------------------
(* Memory instructions of the FX family *)

(* The stores w (address |-> byte) applied to ram.  A store past the end   *)
(* of ram is undefined: it either changes no modelled cell, or (spill) it *)
(* lands on display, the member that follows ram in chip8_t.              *)
WriteRam(c, w, spill) ==
    [ c EXCEPT !.ram = [ a \in DOMAIN c.ram |->
                           IF a \in DOMAIN w THEN w[a] ELSE c.ram[a] ],
               !.display = [ idx \in DOMAIN c.display |->
                               IF spill /\ (idx + RAM_SIZE) \in DOMAIN w
                               THEN w[idx + RAM_SIZE] # 0 ELSE c.display[idx] ] ]

(* Mutant: the digits are stored in the reverse order, ones at I *)
StoreBcd_reversed(c, in, spill) ==
    LET bcd == c.V[in.X]
        w == [ a \in {c.I, c.I + 1, c.I + 2} |->
                 IF a = c.I THEN bcd % 10
                 ELSE IF a = c.I + 1 THEN (bcd \div 10) % 10
                 ELSE ((bcd \div 10) \div 10) % 10 ]
    IN  WriteRam(c, w, spill)

StoreBcd(c, in, spill) ==
    LET bcd == c.V[in.X]
        w == [ a \in {c.I, c.I + 1, c.I + 2} |->
                 IF a = c.I + 2 THEN bcd % 10
                 ELSE IF a = c.I + 1 THEN (bcd \div 10) % 10
                 ELSE ((bcd \div 10) \div 10) % 10 ]
    IN  WriteRam(c, w, spill)

(* Mutant: the loop stops before VX, for (i = 0; i < X; i++) *)
RegDump_exclusive(c, in, spill) ==
    WriteRam(c, [ a \in { c.I + r : r \in 0 .. in.X - 1 } |-> c.V[a - c.I] ], spill)

RegDump(c, in, spill) ==
    WriteRam(c, [ a \in { c.I + r : r \in 0 .. in.X } |-> c.V[a - c.I] ], spill)

RegLoad(c, in, junk) ==
    [ c EXCEPT !.V = [ r \in DOMAIN c.V |->
                         IF r <= in.X THEN ReadRam(c.ram, junk, c.I + r) ELSE c.V[r] ] ]

ExecF(c, in, nd) ==
    CASE in.NN = 7   -> [ c EXCEPT !.V = [ c.V EXCEPT ![in.X] = c.delay_timer ] ]
      [] in.NN = 10  -> WaitKey(c, in)
      [] in.NN = 21  -> [ c EXCEPT !.delay_timer = c.V[in.X] ]
      [] in.NN = 24  -> [ c EXCEPT !.sound_timer = c.V[in.X] ]
      [] in.NN = 30  -> [ c EXCEPT !.I = U16(c.I + c.V[in.X]) ]
      [] in.NN = 41  -> [ c EXCEPT !.I = c.V[in.X] * 5 ]
      [] in.NN = 51  -> StoreBcd(c, in, nd.spill)
      [] in.NN = 85  -> RegDump(c, in, nd.spill)
      [] in.NN = 101 -> RegLoad(c, in, nd.bytes)
      [] OTHER -> c

----------------------------------------------------------------------------
(* Stack, skips and keypad tests *)

Return(c, nd) ==
    LET sp == U8(c.SP + 255)
    IN  [ c EXCEPT !.SP = sp,
                   !.PC = IF sp < STACK_SIZE THEN c.stack[sp] ELSE nd.word ]

(* Mutant: the address of the call itself is pushed, as if PC had not been *)
(* advanced before the dispatch                                            *)
PushPC_unadvanced(c, spill) ==
    IF c.SP < STACK_SIZE
    THEN [ c EXCEPT !.stack = [ c.stack EXCEPT ![c.SP] = U16(c.PC + 65534) ] ]
    ELSE c

(* stack[SP] = PC.  A store past the end of stack is undefined: it either  *)
(* changes no modelled cell, or (spill) its two bytes land on the members *)
(* that follow stack in chip8_t: SP at byte 0, V[0..15] at bytes 1..16.   *)
PushPC(c, spill) ==
    IF c.SP < STACK_SIZE THEN [ c EXCEPT !.stack = [ c.stack EXCEPT ![c.SP] = c.PC ] ]
    ELSE IF ~spill THEN c
    ELSE LET off == 2 * (c.SP - STACK_SIZE)
             lo == c.PC % 256
             hi == c.PC \div 256
         IN  [ c EXCEPT !.SP = IF off = 0 THEN lo ELSE c.SP,
                        !.V = [ r \in DOMAIN c.V |->
                                  IF r + 1 = off THEN lo
                                  ELSE IF r + 1 = off + 1 THEN hi ELSE c.V[r] ] ]

Call(c, in, spill) ==
    LET c1 == PushPC(c, spill)
    IN  [ c1 EXCEPT !.PC = in.NNN, !.SP = U8(c1.SP + 1) ]

Skip(c) == [ c EXCEPT !.PC = U16(c.PC + 2) ]

(* keypad[VX], where a read past the end of keypad delivers any value *)
KeyAt(c, in, nd) == IF c.V[in.X] < 16 THEN c.keypad[c.V[in.X]] ELSE nd.key

(* Mutant: only the first 256 cells are cleared *)
ClearScreen_short(c) ==
    [ c EXCEPT !.display = [ idx \in DOMAIN c.display |->
                               IF idx < 256 THEN FALSE ELSE c.display[idx] ] ]

(* memset(&display[0], false, sizeof(display)) *)
ClearScreen(c) == [ c EXCEPT !.display = [ idx \in DOMAIN c.display |-> FALSE ] ]

Exec0(c, in, nd) ==
    IF in.NN = 224 THEN ClearScreen(c)
    ELSE IF in.NN = 238 THEN Return(c, nd)
    ELSE c

ExecE(c, in, nd) ==
    IF in.NN = 158 THEN (IF KeyAt(c, in, nd) THEN Skip(c) ELSE c)
    ELSE IF in.NN = 161 THEN (IF ~KeyAt(c, in, nd) THEN Skip(c) ELSE c)
    ELSE c

(* The switch on the top nibble; c already holds the incremented PC *)
Exec(c, in, nd) ==
    CASE Family(in) = 0  -> Exec0(c, in, nd)
      [] Family(in) = 1  -> [ c EXCEPT !.PC = in.NNN ]
      [] Family(in) = 2  -> Call(c, in, nd.spill)
      [] Family(in) = 3  -> IF c.V[in.X] = in.NN THEN Skip(c) ELSE c
      [] Family(in) = 4  -> IF c.V[in.X] # in.NN THEN Skip(c) ELSE c
      [] Family(in) = 5  -> IF c.V[in.X] = c.V[in.Y] THEN Skip(c) ELSE c
      [] Family(in) = 6  -> [ c EXCEPT !.V = [ c.V EXCEPT ![in.X] = in.NN ] ]
      [] Family(in) = 7  -> [ c EXCEPT !.V = [ c.V EXCEPT ![in.X] = U8(c.V[in.X] + in.NN) ] ]
      [] Family(in) = 8  -> [ c EXCEPT !.V = Alu(c.V, in) ]
      [] Family(in) = 9  -> IF c.V[in.X] # c.V[in.Y] THEN Skip(c) ELSE c
      [] Family(in) = 10 -> [ c EXCEPT !.I = in.NNN ]
      [] Family(in) = 11 -> [ c EXCEPT !.PC = c.V[0] + in.NNN ]
      [] Family(in) = 12 -> [ c EXCEPT !.V = [ c.V EXCEPT ![in.X] = BitAnd(nd.rnd % 256, in.NN) ] ]
      [] Family(in) = 13 -> Draw(c, in, nd.bytes)
      [] Family(in) = 14 -> ExecE(c, in, nd)
      [] OTHER -> ExecF(c, in, nd)

(* The ram addresses an instruction touches *)
RamAccesses(c, in) ==
    CASE Family(in) = 13 -> { c.I + r : r \in 0 .. (y_end(c, in) - y_start(c, in) - 1) }
      [] Family(in) = 15 /\ in.NN = 51 -> { c.I, c.I + 1, c.I + 2 }
      [] Family(in) = 15 /\ in.NN \in {85, 101} -> { c.I + r : r \in 0 .. in.X }
      [] OTHER -> {}

(* The accesses of one instruction that fall outside their array.  A read *)
(* outside delivers any value and a write outside may land on the members *)
(* that follow the array (Nondet).                                        *)
OobAccesses(c, in) ==
    (IF \E a \in RamAccesses(c, in) : a >= RAM_SIZE THEN {"ram"} ELSE {})
    \cup (IF in.opcode = 238 /\ U8(c.SP + 255) >= STACK_SIZE THEN {"stack"} ELSE {})
    \cup (IF Family(in) = 2 /\ c.SP >= STACK_SIZE THEN {"stack"} ELSE {})
    \cup (IF Family(in) = 14 /\ in.NN \in {158, 161} /\ c.V[in.X] >= 16
          THEN {"keypad"} ELSE {})

(* What one instruction takes from outside the modelled state: rand() and   *)
(* the values delivered by its out-of-bounds reads                          *)
Nondet(c, in) ==
    [ rnd   : IF Family(in) = 12 THEN RandValues ELSE {0},
      word  : IF "stack" \in OobAccesses(c, in) /\ Family(in) = 0 THEN UBWords ELSE {0},
      key   : IF "keypad" \in OobAccesses(c, in) THEN BOOLEAN ELSE {FALSE},
      bytes : [ { a \in RamAccesses(c, in) : a >= RAM_SIZE } -> UBBytes ],
      spill : IF \/ Family(in) = 2 /\ "stack" \in OobAccesses(c, in)
                 \/ Family(in) = 15 /\ in.NN \in {51, 85} /\ "ram" \in OobAccesses(c, in)
              THEN BOOLEAN ELSE {FALSE} ]

----------------------------------------------------------------------------
(* emulate_instruction: fetch, advance PC, decode, dispatch *)

emulate_instruction(c, opcode, nd) ==
    LET in == Decode(opcode)
    IN  Exec([ c EXCEPT !.inst = in, !.PC = U16(c.PC + 2) ], in, nd)

(* The decoded view of one cycle, as Exec receives it *)
Fetched(c, opcode) == [ c EXCEPT !.inst = Decode(opcode), !.PC = U16(c.PC + 2) ]

----------------------------------------------------------------------------
(* update_timers *)

(* Mutant: the timers are decremented without the test for zero *)
update_timers_wrap(c) ==
    [ c EXCEPT !.delay_timer = U8(c.delay_timer + 255),
               !.sound_timer = U8(c.sound_timer + 255) ]

(* Mutant: the tick is skipped while PC is at a wait-for-key instruction *)
update_timers_unlesswaiting(c) ==
    IF c.PC + 1 < RAM_SIZE /\ c.ram[c.PC] \div 16 = 15 /\ c.ram[c.PC + 1] = 10
    THEN c
    ELSE [ c EXCEPT !.delay_timer = IF c.delay_timer > 0 THEN c.delay_timer - 1
                                    ELSE c.delay_timer,
                    !.sound_timer = IF c.sound_timer > 0 THEN c.sound_timer - 1
                                    ELSE c.sound_timer ]

update_timers(c) ==
    [ c EXCEPT !.delay_timer = IF c.delay_timer > 0 THEN c.delay_timer - 1 ELSE c.delay_timer,
               !.sound_timer = IF c.sound_timer > 0 THEN c.sound_timer - 1 ELSE c.sound_timer ]

----------------------------------------------------------------------------
(* init_chip8 *)

(* chip8_t chip8 = {0}: every member zero, and the enumerator QUIT is 0 *)
ZeroMachine ==
    [ state       |-> "QUIT",
      ram         |-> [ a \in 0 .. RAM_SIZE - 1 |-> 0 ],
      display     |-> [ idx \in 0 .. SCREEN_WIDTH * SCREEN_HEIGHT - 1 |-> FALSE ],
      stack       |-> [ s \in 0 .. STACK_SIZE - 1 |-> 0 ],
      SP          |-> 0,
      V           |-> [ r \in 0 .. 15 |-> 0 ],
      I           |-> 0,
      PC          |-> 0,
      delay_timer |-> 0,
      sound_timer |-> 0,
      keypad      |-> [ k \in 0 .. 15 |-> FALSE ],
      inst        |-> NoInst ]

max_size == RAM_SIZE - entry_point

(* memcpy(&chip8->ram[0], font, sizeof(font)) *)
LoadFont(c) ==
    [ c EXCEPT !.ram = [ a \in DOMAIN c.ram |->
                           IF a < Len(font) THEN font[a + 1] ELSE c.ram[a] ] ]

(* The first got bytes of the file stored from entry_point on *)
ReadInto(c, bytes, got) ==
    [ c EXCEPT !.ram = [ a \in DOMAIN c.ram |->
                           IF a - entry_point \in 0 .. got - 1
                           THEN bytes[a - entry_point + 1] ELSE c.ram[a] ] ]

(* fread(&ram[entry_point], rom_size, 1, rom): the number of items read, 1 *)
(* or 0; a zero-sized item is never read                                   *)
FreadItems(file) ==
    IF Len(file.bytes) = 0 \/ file.status = "ioerror" THEN 0 ELSE 1

(* The number of bytes fread may have stored *)
FreadStored(file) ==
    IF file.status = "ioerror" THEN 0 .. Len(file.bytes) - 1 ELSE { Len(file.bytes) }

(* Whether init_chip8 returns true *)
InitOk(file) ==
    /\ file.status # "missing"
    /\ Len(file.bytes) <= max_size
    /\ FreadItems(file) = 1

init_chip8(c, file, got) ==
    LET c1 == LoadFont(c)
    IN  IF file.status = "missing" THEN c1
        ELSE IF Len(file.bytes) > max_size THEN c1
        ELSE IF FreadItems(file) # 1 THEN ReadInto(c1, file.bytes, got)
        ELSE [ ReadInto(c1, file.bytes, got) EXCEPT
                 !.state = "RUNNING", !.PC = entry_point, !.SP = 0 ]

----------------------------------------------------------------------------
(* handle_input *)

(* Keyboard symbol to keypad index *)
KeyMap ==
    [ sym \in {"1", "2", "3", "4", "q", "w", "e", "r",
               "a", "s", "d", "f", "z", "x", "c", "v"} |->
        CASE sym = "1" -> 1  [] sym = "2" -> 2  [] sym = "3" -> 3  [] sym = "4" -> 12
          [] sym = "q" -> 4  [] sym = "w" -> 5  [] sym = "e" -> 6  [] sym = "r" -> 13
          [] sym = "a" -> 7  [] sym = "s" -> 8  [] sym = "d" -> 9  [] sym = "f" -> 14
          [] sym = "z" -> 10 [] sym = "x" -> 0  [] sym = "c" -> 11 [] sym = "v" -> 15 ]

(* Mutant: the space key pauses and never resumes *)
HandleEvent_pauseonly(c, e) ==
    IF e.type = "SDL_QUIT" THEN [ c |-> [ c EXCEPT !.state = "QUIT" ], ret |-> TRUE ]
    ELSE IF e.type = "SDL_KEYDOWN" /\ e.sym = "ESCAPE"
    THEN [ c |-> [ c EXCEPT !.state = "QUIT" ], ret |-> TRUE ]
    ELSE IF e.type = "SDL_KEYDOWN" /\ e.sym = "SPACE"
    THEN [ c |-> [ c EXCEPT !.state = "PAUSED" ], ret |-> TRUE ]
    ELSE IF e.type = "SDL_KEYDOWN" /\ e.sym \in DOMAIN KeyMap
    THEN [ c |-> [ c EXCEPT !.keypad = [ c.keypad EXCEPT ![KeyMap[e.sym]] = TRUE ] ],
           ret |-> FALSE ]
    ELSE IF e.type = "SDL_KEYUP" /\ e.sym \in DOMAIN KeyMap
    THEN [ c |-> [ c EXCEPT !.keypad = [ c.keypad EXCEPT ![KeyMap[e.sym]] = FALSE ] ],
           ret |-> FALSE ]
    ELSE [ c |-> c, ret |-> FALSE ]

(* One iteration of the event loop: the machine after the event, and       *)
(* whether handle_input returns                                            *)
HandleEvent(c, e) ==
    IF e.type = "SDL_QUIT" THEN [ c |-> [ c EXCEPT !.state = "QUIT" ], ret |-> TRUE ]
    ELSE IF e.type = "SDL_KEYDOWN" /\ e.sym = "ESCAPE"
    THEN [ c |-> [ c EXCEPT !.state = "QUIT" ], ret |-> TRUE ]
    ELSE IF e.type = "SDL_KEYDOWN" /\ e.sym = "SPACE"
    THEN [ c |-> [ c EXCEPT !.state = IF c.state = "RUNNING" THEN "PAUSED" ELSE "RUNNING" ],
           ret |-> TRUE ]
    ELSE IF e.type = "SDL_KEYDOWN" /\ e.sym \in DOMAIN KeyMap
    THEN [ c |-> [ c EXCEPT !.keypad = [ c.keypad EXCEPT ![KeyMap[e.sym]] = TRUE ] ],
           ret |-> FALSE ]
    ELSE IF e.type = "SDL_KEYUP" /\ e.sym \in DOMAIN KeyMap
    THEN [ c |-> [ c EXCEPT !.keypad = [ c.keypad EXCEPT ![KeyMap[e.sym]] = FALSE ] ],
           ret |-> FALSE ]
    ELSE [ c |-> c, ret |-> FALSE ]

RECURSIVE handle_input(_, _)
handle_input(c, events) ==
    IF events = << >> THEN c
    ELSE LET r == HandleEvent(c, Head(events))
         IN  IF r.ret THEN r.c ELSE handle_input(r.c, Tail(events))

(* The host events explored *)
EventSyms == {"x", "1", "v"}
Events ==
    { [ type |-> "SDL_QUIT", sym |-> "" ],
      [ type |-> "SDL_KEYDOWN", sym |-> "ESCAPE" ],
      [ type |-> "SDL_KEYDOWN", sym |-> "SPACE" ],
      [ type |-> "SDL_KEYUP", sym |-> "SPACE" ] }
    \cup [ type : {"SDL_KEYDOWN", "SDL_KEYUP"}, sym : EventSyms ]

EventSeqs == UNION { [ 1 .. n -> Events ] : n \in 0 .. MaxEvents }

----------------------------------------------------------------------------
(* ROM files *)

Ins(a, b, c, d) == << a * 16 + b, c * 16 + d >>
Ins8(a, b, nn) == << a * 16 + b, nn >>
File(bytes) == [ status |-> "ok", bytes |-> bytes ]
Blank(n) == [ k \in 1 .. n |-> 0 ]

MissingFile == [ status |-> "missing", bytes |-> << >> ]

(* V0 := x; V1 := y; I := sprite; draw N rows; V0 += dx; draw again; spin *)
DrawRom(x, y, n, dx, s) ==
    Ins8(6, 0, x) \o Ins8(6, 1, y) \o Ins(10, 2, 1, 0) \o Ins(13, 0, 1, n)
    \o Ins8(7, 0, dx) \o Ins(13, 0, 1, n) \o Ins(1, 2, 0, 12) \o Ins(0, 0, 0, 0)
    \o s

DrawFiles ==
    { File(DrawRom(x, y, n, dx, << 255, 129 >>)) :
        x \in {0, 60, 124, 63}, y \in {0, 63}, n \in {1, 2, 15}, dx \in {0, 2} }
    \cup { MissingFile }

(* VX := a; wait for a key into VX; spin *)
KeyRom(X, a) == Ins8(6, X, a) \o Ins8(15, X, 10) \o Ins(1, 2, 0, 4)

(* V0 := t; delay timer := V0; sound timer := V0; spin *)
TimerRom(t) == Ins8(6, 0, t) \o Ins8(15, 0, 21) \o Ins8(15, 0, 24) \o Ins(1, 2, 0, 6)

KeyFiles ==
    { File(KeyRom(X, a)) : X \in {0, 5, 15}, a \in {7, 200} }
    \cup { File(TimerRom(t)) : t \in {1, 3} }
    \cup { MissingFile }

(* VX := a; VY := b; VX := VX op VY; spin *)
AluRom(X, Y, a, b, op) ==
    Ins8(6, X, a) \o Ins8(6, Y, b) \o Ins(8, X, Y, op) \o Ins(1, 2, 0, 6)

AluFiles ==
    { File(AluRom(X, Y, a, b, op)) :
        X \in {0, 3, 15}, Y \in {1, 3, 15}, a \in {1, 5, 250}, b \in {0, 7, 255},
        op \in {4, 5} }
    \cup { MissingFile }

(* V0 := td; V1 := ts; delay timer := V0; sound timer := V1; spin *)
TimerRom2(td, ts) ==
    Ins8(6, 0, td) \o Ins8(6, 1, ts) \o Ins8(15, 0, 21) \o Ins8(15, 1, 24)
    \o Ins(1, 2, 0, 8)

TimerValues == {0, 1, 2, 255}

TimerFiles ==
    { File(TimerRom2(td, ts)) : td \in TimerValues, ts \in TimerValues }
    \cup { MissingFile }

(* V0 := 5; delay timer := V0; draw glyph 0 at (5, 5); call 0x20A; there   *)
(* the opcode under test, then spin.  0x208, the return address, spins.   *)
OpcodeRom(hi, lo) ==
    Ins8(6, 0, 5) \o Ins8(15, 0, 21) \o Ins(13, 0, 0, 5) \o Ins(2, 2, 0, 10)
    \o Ins(1, 2, 0, 8) \o << hi, lo >> \o Ins(1, 2, 0, 12)

(* Opcodes outside the instruction set, and 00E0 *)
OpcodeFiles ==
    { File(OpcodeRom(op[1], op[2])) :
        op \in { <<0, 0>>, <<1, 35>>, <<1, 224>>, <<1, 238>>, <<129, 40>>, <<129, 47>>,
                 <<225, 0>>, <<225, 159>>, <<241, 0>>, <<241, 255>>, <<0, 224>> } }
    \cup { MissingFile }

(* 0x200: call 0x200, a subroutine that calls itself without returning *)
CallRom == Ins(2, 2, 0, 0)

(* 0x200: return, with nothing on the stack *)
ReturnRom == Ins(0, 0, 14, 14)

(* 0x200: call 0x204; 0x202: spin; 0x204: return *)
CallReturnRom == Ins(2, 2, 0, 4) \o Ins(1, 2, 0, 2) \o Ins(0, 0, 14, 14)

StackFiles ==
    { File(CallRom), File(ReturnRom), File(CallReturnRom) }
    \cup { MissingFile }

(* V0 := v; skip on key V0 (nn = 0x9E pressed, 0xA1 not pressed); then two *)
(* spins, the second reached only by skipping                             *)
KeySkipRom(v, nn) ==
    Ins8(6, 0, v) \o Ins8(14, 0, nn) \o Ins(1, 2, 0, 4) \o Ins(1, 2, 0, 6)

KeySkipFiles ==
    { File(KeySkipRom(v, nn)) : v \in {0, 15, 16, 255}, nn \in {158, 161} }
    \cup { MissingFile }

(* V0 := v; then a jump 1NNN (fam = 1) or a jump with offset BNNN (fam =   *)
(* 0xB) to nnn                                                            *)
JumpRom(v, fam, nnn) ==
    Ins8(6, 0, v) \o << fam * 16 + nnn \div 256, nnn % 256 >>

JumpFiles ==
    { File(JumpRom(v, fam, nnn)) :
        v \in {0, 1, 255}, fam \in {1, 11}, nnn \in {512, 513, 4094, 4095} }
    \cup { MissingFile }

(* V0..V3 := 0x11, 0x22, 0x33, 0x44; I := a1; dump V0..VX; I := a2; load   *)
(* V0..VX; spin                                                           *)
DumpRom(X, a1, a2) ==
    Ins8(6, 0, 17) \o Ins8(6, 1, 34) \o Ins8(6, 2, 51) \o Ins8(6, 3, 68)
    \o << 160 + a1 \div 256, a1 % 256 >> \o Ins8(15, X, 85)
    \o << 160 + a2 \div 256, a2 % 256 >> \o Ins8(15, X, 101)
    \o Ins(1, 2, 1, 0)

(* Dumps to free memory and loads from the font; dumps and loads that end  *)
(* at the last cell of memory, and one that runs one cell past it          *)
DumpFiles ==
    { File(DumpRom(t[1], t[2], t[3])) :
        t \in { <<0, 768, 0>>, <<2, 768, 0>>, <<15, 768, 0>>,
                <<2, 4093, 4093>>, <<0, 4095, 4095>>, <<1, 4095, 4095>> } }
    \cup { MissingFile }

(* V0 := v; I := addr; store the decimal digits of V0; spin *)
BcdRom(v, addr) ==
    Ins8(6, 0, v) \o << 160 + addr \div 256, addr % 256 >> \o Ins8(15, 0, 51)
    \o Ins(1, 2, 0, 6)

BcdValues == {0, 7, 10, 99, 100, 109, 123, 200, 255}

(* Digits stored in free memory, in the last three cells of memory, and    *)
(* from one cell further on                                                *)
BcdFiles ==
    { File(BcdRom(v, addr)) : v \in BcdValues, addr \in {768, 4093, 4094} }
    \cup { MissingFile }

(* The shifts 8XY6 and 8XYE and the reverse subtraction 8XY7, on the       *)
(* register pairs and values of AluRom                                     *)
ShiftSubFiles ==
    { File(AluRom(X, Y, a, b, op)) :
        X \in {0, 3, 15}, Y \in {1, 15}, a \in {1, 5, 250}, b \in {0, 7},
        op \in {6, 7, 14} }
    \cup { MissingFile }

(* Subroutines nested d deep.  Subroutine j lies at 0x200 + 4j: it calls   *)
(* subroutine j + 1 and returns; the program itself (j = 0) spins after    *)
(* its call, and subroutine d only returns.                                *)
RECURSIVE NestFrom(_, _)
NestFrom(j, d) ==
    IF j = d THEN Ins(0, 0, 14, 14)
    ELSE Ins8(2, 2, 4 * j + 4)
         \o (IF j = 0 THEN Ins(1, 2, 0, 2) ELSE Ins(0, 0, 14, 14))
         \o NestFrom(j + 1, d)

NestRom(d) == NestFrom(0, d)

(* Nesting depths up to the 12 levels of the stack, and one beyond *)
NestDepths == {1, 2, 3, 5, 7, 11, 12, 13}

NestFiles == { File(NestRom(d)) : d \in NestDepths } \cup { MissingFile }

(* V0 := t; delay timer := V0; sound timer := V0; wait for a key into V1;   *)
(* spin                                                                    *)
WaitRom(t) ==
    Ins8(6, 0, t) \o Ins8(15, 0, 21) \o Ins8(15, 0, 24) \o Ins8(15, 1, 10)
    \o Ins(1, 2, 0, 8)

WaitFiles == { File(WaitRom(t)) : t \in {0, 1, 2, 3} } \cup { MissingFile }

(* Files at the edges of the loader: empty, of exactly max_size bytes, one *)
(* byte longer, absent, and failing while being read                      *)
LoadFiles ==
    { File(<< >>),
      File(Ins(1, 2, 0, 0)),
      File(KeyRom(0, 7)),
      File(Ins(1, 2, 0, 0) \o Blank(max_size - 3) \o << 171 >>),
      File(Blank(max_size + 1)),
      MissingFile,
      [ status |-> "ioerror", bytes |-> KeyRom(0, 7) ] }

----------------------------------------------------------------------------
(* The program: main *)

InitWith(files) ==
    /\ chip8 = ZeroMachine
    /\ rom \in files
    /\ loc = "init"
    /\ i = 0
    /\ frames = 0
    /\ oob = {}

(* Mutant: the batch runs one instruction more *)
BatchSize_more == insts_per_second \div FRAME_RATE + 1

(* The instructions of one frame, config.insts_per_second / 60 *)
BatchSize == insts_per_second \div FRAME_RATE

(* Mutant: a paused frame is not skipped *)
AfterInput_nopause(c) == "batch"

(* if (chip8.state == PAUSED) continue; otherwise the batch follows *)
AfterInput(c) == IF c.state = "PAUSED" THEN "loop" ELSE "batch"

(* if (!init_chip8(&chip8, rom_name)) exit(EXIT_FAILURE) *)
InitChip8 ==
    /\ loc = "init"
    /\ \E got \in FreadStored(rom) : chip8' = init_chip8(chip8, rom, got)
    /\ loc' = IF InitOk(rom) THEN "loop" ELSE "exit_failure"
    /\ UNCHANGED << rom, i, frames, oob >>

(* while (chip8.state != QUIT) fails: final_cleanup, exit(EXIT_SUCCESS) *)
ExitLoop ==
    /\ loc = "loop"
    /\ chip8.state = "QUIT"
    /\ loc' = "exit_success"
    /\ UNCHANGED << chip8, rom, i, frames, oob >>

(* The head of a frame: handle_input, then continue when PAUSED *)
HandleInput ==
    /\ loc = "loop"
    /\ chip8.state # "QUIT"
    /\ frames < MaxFrames
    /\ \E events \in EventSeqs : chip8' = handle_input(chip8, events)
    /\ loc' = AfterInput(chip8')
    /\ i' = 0
    /\ frames' = frames + 1
    /\ UNCHANGED << rom, oob >>

(* One iteration of the instruction batch loop *)
EmulateInstruction ==
    /\ loc = "batch"
    /\ i < BatchSize
    /\ \E opcode \in FetchChoices(chip8) :
         \E nd \in Nondet(Fetched(chip8, opcode), Decode(opcode)) :
           /\ chip8' = emulate_instruction(chip8, opcode, nd)
           /\ oob' = oob \cup (IF chip8.PC + 1 >= RAM_SIZE THEN {"fetch"} ELSE {})
                         \cup OobAccesses(Fetched(chip8, opcode), Decode(opcode))
    /\ i' = i + 1
    /\ UNCHANGED << rom, loc, frames >>

(* The tail of a frame: update_screen reads the display, update_timers *)
EndFrame ==
    /\ loc = "batch"
    /\ i = BatchSize
    /\ chip8' = update_timers(chip8)
    /\ loc' = "loop"
    /\ UNCHANGED << rom, i, frames, oob >>

Next ==
    \/ InitChip8
    \/ ExitLoop
    \/ HandleInput
    \/ EmulateInstruction
    \/ EndFrame

(* The head of every frame after the counted ones: the loop of main goes   *)
(* on for as long as the state is not QUIT                                 *)
HandleInputOn ==
    /\ loc = "loop"
    /\ chip8.state # "QUIT"
    /\ frames = MaxFrames
    /\ \E events \in EventSeqs : chip8' = handle_input(chip8, events)
    /\ loc' = AfterInput(chip8')
    /\ i' = 0
    /\ UNCHANGED << rom, frames, oob >>

(* main without a limit on the number of frames *)
NextLive ==
    \/ InitChip8
    \/ ExitLoop
    \/ HandleInput
    \/ HandleInputOn
    \/ EmulateInstruction
    \/ EndFrame

SpecDraw == InitWith(DrawFiles) /\ [][Next]_vars

SpecKey == InitWith(KeyFiles) /\ [][Next]_vars

SpecAlu == InitWith(AluFiles) /\ [][Next]_vars

SpecLoad == InitWith(LoadFiles) /\ [][Next]_vars

SpecTimer == InitWith(TimerFiles) /\ [][Next]_vars

SpecOpcode == InitWith(OpcodeFiles) /\ [][Next]_vars

SpecStack == InitWith(StackFiles) /\ [][Next]_vars

SpecKeySkip == InitWith(KeySkipFiles) /\ [][Next]_vars

SpecJump == InitWith(JumpFiles) /\ [][Next]_vars

SpecDump == InitWith(DumpFiles) /\ [][Next]_vars

SpecBcd == InitWith(BcdFiles) /\ [][Next]_vars

SpecShiftSub == InitWith(ShiftSubFiles) /\ [][Next]_vars

SpecNest == InitWith(NestFiles) /\ [][Next]_vars

SpecWait == InitWith(WaitFiles) /\ [][Next]_vars

(* main runs on one thread and none of its calls blocks (SDL_PollEvent     *)
(* returns at once), so the loop keeps taking steps                        *)
SpecWaitLive == InitWith(WaitFiles) /\ [][NextLive]_vars /\ WF_vars(NextLive)

Spec == InitWith(DrawFiles \cup KeyFiles \cup AluFiles \cup LoadFiles) /\ [][Next]_vars

----------------------------------------------------------------------------
(* Steps of the program, as seen from a pair of states *)

(* One call of emulate_instruction *)
Stepped == loc = "batch" /\ i' = i + 1

(* One call of update_timers *)
Ticked == loc = "batch" /\ loc' = "loop"

(* A step that executed a draw instruction DXYN *)
DrawStep == Stepped /\ Family(chip8'.inst) = 13

(* A step that executed a wait-for-key instruction FX0A *)
WaitKeyStep == Stepped /\ Family(chip8'.inst) = 15 /\ chip8'.inst.NN = 10

(* A step that executed 8XYN with low nibble n *)
AluStep(n) == Stepped /\ Family(chip8'.inst) = 8 /\ chip8'.inst.N = n

PressedKeys(c) == { k \in 0 .. 15 : c.keypad[k] }
LitCells(c) == { idx \in DOMAIN c.display : c.display[idx] }

(* The fields the claims call the core state of the machine *)
Core(c) == << c.V, c.I, c.PC, c.SP, c.stack, c.ram, c.display,
              c.delay_timer, c.sound_timer >>

----------------------------------------------------------------------------
(* C1: after a draw, VF is 1 if the draw changed at least one framebuffer  *)
(* pixel from set to unset, and 0 otherwise.                               *)
C1_DrawSetsCollisionFlag ==
    [][ DrawStep =>
          chip8'.V[15] = IF \E idx \in DOMAIN chip8.display :
                               chip8.display[idx] /\ ~chip8'.display[idx]
                         THEN 1 ELSE 0 ]_vars

(* C2: a draw reduces only its starting column and row modulo 64 and 32,   *)
(* XORs bit c (most significant first) of sprite row r into exactly the    *)
(* cells (x_start + c, y_start + r) that lie on the screen, and leaves     *)
(* every other cell unchanged.                                             *)
C2_DrawClipsAndXors ==
    [][ (DrawStep /\ chip8.I + chip8'.inst.N <= RAM_SIZE) =>
          LET in == chip8'.inst
              xs == chip8.V[in.X] % 64
              ys == chip8.V[in.Y] % 32
          IN  \A idx \in 0 .. 2047 :
                LET col == (idx % 64) - xs
                    row == (idx \div 64) - ys
                    hit == /\ col \in 0 .. 7
                           /\ row \in 0 .. in.N - 1
                           /\ (chip8.ram[chip8.I + row] \div (2 ^ (7 - col))) % 2 = 1
                IN  chip8'.display[idx] = (chip8.display[idx] # hit) ]_vars

(* C2 witness: the one-row sprite 0xFF drawn from a start column that is   *)
(* reduced modulo 64 to 60 has set columns 60..63 of row 0 and nothing     *)
(* else.                                                                   *)
C2_Witness ==
    /\ loc = "batch"
    /\ Family(chip8.inst) = 13
    /\ chip8.inst.N = 1
    /\ chip8.V[chip8.inst.X] = 124
    /\ chip8.V[chip8.inst.Y] = 0
    /\ chip8.ram[chip8.I] = 255
    /\ LitCells(chip8) = {60, 61, 62, 63}

(* C3: with no keypad flag set, a step that executes FX0A leaves PC at     *)
(* that instruction and leaves V0..VF unchanged.                           *)
C3_WaitKeyPolls ==
    [][ (WaitKeyStep /\ PressedKeys(chip8) = {}) =>
          /\ chip8'.PC = chip8.PC
          /\ chip8'.V = chip8.V ]_vars

(* C3 witness: the wait-for-key instruction at 0x202 has been executed in  *)
(* a second frame, no key is pressed, PC is still 0x202 and VX holds what  *)
(* the program put there.                                                  *)
C3_Witness ==
    /\ loc = "batch"
    /\ frames = 2
    /\ i >= 2
    /\ chip8.inst.opcode = 15 * 4096 + 5 * 256 + 10
    /\ PressedKeys(chip8) = {}
    /\ chip8.PC = 514
    /\ chip8.V[5] = 200

(* C4: with at least one of the keypad flags 0x0..0xF set, a step that     *)
(* executes FX0A stores in VX the lowest pressed index and leaves PC at    *)
(* the following instruction.                                              *)
C4_WaitKeyTakesLowest ==
    [][ (WaitKeyStep /\ PressedKeys(chip8) # {}) =>
          /\ chip8'.V[chip8'.inst.X] \in PressedKeys(chip8)
          /\ \A k \in PressedKeys(chip8) : chip8'.V[chip8'.inst.X] <= k
          /\ chip8'.PC = chip8.PC + 2 ]_vars

(* C5: once the run state is QUIT, no instruction is executed and no timer *)
(* decrement is performed.                                                 *)
C5_HaltedIsTerminal ==
    [][ chip8.state = "QUIT" => ~Stepped /\ ~Ticked ]_vars

(* C6: a frame whose run state is PAUSED after input handling runs neither *)
(* the instruction batch nor the timer decrement: the frame ends with      *)
(* registers, I, PC, SP, stack, memory, framebuffer and both timers as     *)
(* they were.                                                              *)
C6_PausedFrameFrozen ==
    [][ /\ (loc = "loop" /\ frames' = frames + 1 /\ chip8'.state = "PAUSED") =>
             (loc' = "loop" /\ Core(chip8') = Core(chip8))
        /\ chip8.state = "PAUSED" => (~Stepped /\ ~Ticked) ]_vars

(* C6 witness: a second frame has ended PAUSED while the delay timer set   *)
(* by the program is still running.                                        *)
C6_Witness ==
    /\ loc = "loop"
    /\ frames = 2
    /\ chip8.state = "PAUSED"
    /\ chip8.delay_timer = 2
    /\ chip8.sound_timer = 2

(* C7: for every readable file of at most 4096 - 0x200 bytes the load      *)
(* succeeds, and afterwards PC = 0x200, SP = 0, the run state is RUNNING,  *)
(* the font occupies memory 0..79 and the file's bytes lie from 0x200 on.  *)
C7_LoadSucceeds ==
    [][ (loc = "init" /\ rom.status = "ok" /\ Len(rom.bytes) <= 4096 - 512) =>
          /\ loc' = "loop"
          /\ chip8'.PC = 512
          /\ chip8'.SP = 0
          /\ chip8'.state = "RUNNING"
          /\ \A a \in 0 .. 79 : chip8'.ram[a] = font[a + 1]
          /\ \A k \in 1 .. Len(rom.bytes) : chip8'.ram[512 + k - 1] = rom.bytes[k] ]_vars

(* C8: when the load fails, memory, registers, PC, SP and run state are as *)
(* they were before the call.                                              *)
C8_FailedLoadMutatesNothing ==
    [][ (loc = "init" /\ loc' = "exit_failure") =>
          /\ chip8'.ram = chip8.ram
          /\ chip8'.V = chip8.V
          /\ chip8'.PC = chip8.PC
          /\ chip8'.SP = chip8.SP
          /\ chip8'.state = chip8.state ]_vars

(* C9: 8XY4 with X other than 0xF leaves VX = (a + b) mod 256 and VF = 1   *)
(* if a + b > 255, else 0, where a and b are VX and VY before.             *)
C9_AddRegisters ==
    [][ (AluStep(4) /\ chip8'.inst.X # 15) =>
          LET a == chip8.V[chip8'.inst.X]
              b == chip8.V[chip8'.inst.Y]
          IN  /\ chip8'.V[chip8'.inst.X] = (a + b) % 256
              /\ chip8'.V[15] = IF a + b > 255 THEN 1 ELSE 0 ]_vars

(* C10: 8XY5 with X other than 0xF leaves VX = (a - b) mod 256 and VF = 1  *)
(* if a >= b, else 0, where a and b are VX and VY before.                  *)
C10_SubRegisters ==
    [][ (AluStep(5) /\ chip8'.inst.X # 15) =>
          LET a == chip8.V[chip8'.inst.X]
              b == chip8.V[chip8'.inst.Y]
          IN  /\ chip8'.V[chip8'.inst.X] = (256 + a - b) % 256
              /\ chip8'.V[15] = IF a >= b THEN 1 ELSE 0 ]_vars

----------------------------------------------------------------------------
(* C11: each timer tick lowers a nonzero timer by exactly 1 and leaves a   *)
(* zero timer at 0, for the delay timer and the sound timer independently; *)
(* a timer never wraps to 255.                                             *)
C11_TimersCountDownToZero ==
    [][ Ticked =>
          /\ chip8'.delay_timer =
               IF chip8.delay_timer = 0 THEN 0 ELSE chip8.delay_timer - 1
          /\ chip8'.sound_timer =
               IF chip8.sound_timer = 0 THEN 0 ELSE chip8.sound_timer - 1
          /\ chip8'.delay_timer \in 0 .. 255
          /\ chip8'.sound_timer \in 0 .. 255 ]_vars

(* C11 witness: after two ticks a delay timer set to 1 has gone 1, 0, 0    *)
(* while the sound timer set to 255 has gone 255, 254, 253.                *)
C11_Witness ==
    /\ loc = "loop"
    /\ frames = 2
    /\ chip8.V[0] = 1
    /\ chip8.V[1] = 255
    /\ chip8.delay_timer = 0
    /\ chip8.sound_timer = 253

----------------------------------------------------------------------------
(* The opcodes C12 calls unrecognized *)
Unrecognized(in) ==
    \/ Family(in) = 0 /\ in.opcode \notin {224, 238}
    \/ Family(in) = 8 /\ in.N \notin (0 .. 7) \cup {14}
    \/ Family(in) = 14 /\ in.NN \notin {158, 161}
    \/ Family(in) = 15 /\ in.NN \notin {7, 10, 21, 24, 30, 41, 51, 85, 101}

(* C12: stepping an unrecognized opcode changes nothing except that PC     *)
(* advances by 2: registers, I, SP, stack, memory, framebuffer, timers,    *)
(* keypad and run state are unchanged.                                     *)
C12_UnknownOpcodeIsNoOp ==
    [][ (Stepped /\ Unrecognized(chip8'.inst)) =>
          /\ chip8'.PC = chip8.PC + 2
          /\ chip8'.V = chip8.V
          /\ chip8'.I = chip8.I
          /\ chip8'.SP = chip8.SP
          /\ chip8'.stack = chip8.stack
          /\ chip8'.ram = chip8.ram
          /\ chip8'.display = chip8.display
          /\ chip8'.delay_timer = chip8.delay_timer
          /\ chip8'.sound_timer = chip8.sound_timer
          /\ chip8'.keypad = chip8.keypad
          /\ chip8'.state = chip8.state ]_vars

(* A step that executed a return 00EE, and one that executed a call 2NNN *)
ReturnStep == Stepped /\ chip8'.inst.opcode = 238
CallStep == Stepped /\ Family(chip8'.inst) = 2

(* C13: a return executed when SP = 0 and a call executed when SP = 12 are *)
(* errors: the machine is Halted afterwards and the offending instruction  *)
(* modifies neither the stack pointer nor the stack.                       *)
C13_StackErrorsHalt ==
    [][ ((ReturnStep /\ chip8.SP = 0) \/ (CallStep /\ chip8.SP = 12)) =>
          /\ chip8'.state = "QUIT"
          /\ chip8'.SP = chip8.SP
          /\ chip8'.stack = chip8.stack ]_vars

(* C14: in every reachable state 0 <= SP <= 12, and every stack read or    *)
(* write has used an index in 0..11.                                       *)
C14_StackPointerInRange ==
    /\ chip8.SP \in 0 .. 12
    /\ "stack" \notin oob

(* A step that executed EX9E or EXA1 *)
KeySkipStep == Stepped /\ Family(chip8'.inst) = 14 /\ chip8'.inst.NN \in {158, 161}

(* C15: EX9E and EXA1 never read the keypad at an index outside 0..15;     *)
(* with VX > 0xF the key counts as not pressed, so EX9E does not skip and  *)
(* EXA1 skips.                                                             *)
C15_KeySkipStaysInBounds ==
    [][ KeySkipStep =>
          /\ "keypad" \notin oob'
          /\ chip8.V[chip8'.inst.X] > 15 =>
               chip8'.PC = chip8.PC + (IF chip8'.inst.NN = 158 THEN 2 ELSE 4) ]_vars

(* C16: a frame that is not PAUSED after input handling executes exactly   *)
(* floor(insts_per_second / 60) instructions and then performs exactly one *)
(* timer decrement; executing an instruction changes a timer only when the *)
(* instruction is set-delay-timer (FX15) or set-sound-timer (FX18).        *)
C16_FrameRunsBatchThenOneTick ==
    [][ LET n == insts_per_second \div 60
            in == chip8'.inst
        IN  /\ (loc = "loop" /\ frames' = frames + 1 /\ chip8'.state # "PAUSED") =>
                 (loc' = "batch" /\ i' = 0)
            /\ (loc = "batch" /\ i < n) => Stepped
            /\ (loc = "batch" /\ i >= n) => (Ticked /\ i = n)
            /\ Ticked =>
                 /\ i = n
                 /\ chip8.delay_timer - chip8'.delay_timer =
                      (IF chip8.delay_timer > 0 THEN 1 ELSE 0)
                 /\ chip8.sound_timer - chip8'.sound_timer =
                      (IF chip8.sound_timer > 0 THEN 1 ELSE 0)
            /\ Stepped =>
                 /\ chip8'.delay_timer =
                      IF Family(in) = 15 /\ in.NN = 21 THEN chip8.V[in.X]
                      ELSE chip8.delay_timer
                 /\ chip8'.sound_timer =
                      IF Family(in) = 15 /\ in.NN = 24 THEN chip8.V[in.X]
                      ELSE chip8.sound_timer ]_vars

(* C16 witness: the first frame has run its 8 instructions, which set the  *)
(* delay timer to 2 and the sound timer to 255, and then ticked once.      *)
C16_Witness ==
    /\ loc = "loop"
    /\ frames = 1
    /\ i = 8
    /\ chip8.state = "RUNNING"
    /\ chip8.V[0] = 2
    /\ chip8.V[1] = 255
    /\ chip8.delay_timer = 1
    /\ chip8.sound_timer = 254

(* C17: in every state PC is even, and PC and PC + 1, the two bytes of the *)
(* next fetch, are addresses within 0 .. RAM_SIZE - 1.                     *)
C17_PCAlignedAndInBounds ==
    /\ chip8.PC % 2 = 0
    /\ chip8.PC + 1 < RAM_SIZE

(* C18: every framebuffer cell is set iff an odd number of 1-bits of       *)
(* sprites have landed on it since the last clear-screen 00E0 (or since    *)
(* the machine started). Stated step by step: the framebuffer starts all   *)
(* false, a draw toggles exactly the cells its 1-bits land on, 00E0 makes  *)
(* every cell false, and no other step changes any cell.                   *)
C18_FramebufferIsXorOfDraws ==
    /\ LitCells(chip8) = {}
    /\ [][ LET in == chip8'.inst
               xs == chip8.V[in.X] % 64
               ys == chip8.V[in.Y] % 32
               landed(idx) ==
                   LET col == (idx % 64) - xs
                       row == (idx \div 64) - ys
                   IN  /\ col \in 0 .. 7
                       /\ row \in 0 .. in.N - 1
                       /\ (chip8.ram[chip8.I + row] \div (2 ^ (7 - col))) % 2 = 1
           IN  IF DrawStep
               THEN chip8.I + in.N <= RAM_SIZE =>
                      \A idx \in 0 .. 2047 :
                         chip8'.display[idx] = (chip8.display[idx] # landed(idx))
               ELSE IF Stepped /\ in.opcode = 224
               THEN LitCells(chip8') = {}
               ELSE chip8'.display = chip8.display ]_vars

(* C19: a step that executes clear-screen 00E0 leaves every one of the     *)
(* 64 x 32 framebuffer cells false, whatever the framebuffer held, and     *)
(* leaves V0..VF, I, SP, the stack, memory and both timers unchanged.      *)
C19_ClearScreenClearsOnlyDisplay ==
    [][ (Stepped /\ chip8'.inst.opcode = 224) =>
          /\ \A idx \in 0 .. SCREEN_WIDTH * SCREEN_HEIGHT - 1 : ~chip8'.display[idx]
          /\ chip8'.V = chip8.V
          /\ chip8'.I = chip8.I
          /\ chip8'.SP = chip8.SP
          /\ chip8'.stack = chip8.stack
          /\ chip8'.ram = chip8.ram
          /\ chip8'.delay_timer = chip8.delay_timer
          /\ chip8'.sound_timer = chip8.sound_timer ]_vars

(* C19 witness: 00E0 has run as the fifth instruction, after glyph 0 was   *)
(* drawn at (5, 5), the delay timer was set to 5 and a call was made; the  *)
(* framebuffer is empty and the rest is as the earlier instructions left   *)
(* it.                                                                     *)
C19_Witness ==
    /\ loc = "batch"
    /\ i = 5
    /\ frames = 1
    /\ chip8.inst.opcode = 224
    /\ LitCells(chip8) = {}
    /\ chip8.PC = 524
    /\ chip8.V[0] = 5
    /\ chip8.SP = 1
    /\ chip8.stack[0] = 520
    /\ chip8.delay_timer = 5

(* A step that executed register-dump FX55, or register-load FX65, with    *)
(* all of I .. I + X inside memory                                         *)
DumpStep ==
    /\ Stepped
    /\ Family(chip8'.inst) = 15
    /\ chip8'.inst.NN = 85
    /\ chip8.I + chip8'.inst.X < RAM_SIZE
LoadStep ==
    /\ Stepped
    /\ Family(chip8'.inst) = 15
    /\ chip8'.inst.NN = 101
    /\ chip8.I + chip8'.inst.X < RAM_SIZE

(* C20: with I .. I + X inside memory, FX55 sets memory[I + r] = Vr for    *)
(* exactly r in 0 .. X and leaves every other memory cell, every register  *)
(* and I unchanged; FX65 sets Vr = memory[I + r] for exactly r in 0 .. X   *)
(* and leaves V(X+1) .. VF, memory and I unchanged.                        *)
C20_DumpAndLoadAreInclusive ==
    [][ LET X == chip8'.inst.X
        IN  /\ DumpStep =>
                 /\ \A a \in 0 .. RAM_SIZE - 1 :
                      chip8'.ram[a] = IF a \in chip8.I .. chip8.I + X
                                      THEN chip8.V[a - chip8.I] ELSE chip8.ram[a]
                 /\ chip8'.V = chip8.V
                 /\ chip8'.I = chip8.I
            /\ LoadStep =>
                 /\ \A r \in 0 .. 15 :
                      chip8'.V[r] = IF r <= X THEN chip8.ram[chip8.I + r]
                                    ELSE chip8.V[r]
                 /\ chip8'.ram = chip8.ram
                 /\ chip8'.I = chip8.I ]_vars

(* C20 witness: F255 at I = 0x300 has stored V0..V2 and not V3, and then   *)
(* F265 at I = 0 has loaded the first three font bytes into V0..V2 and     *)
(* left V3 alone.                                                          *)
C20_Witness ==
    /\ loc = "batch"
    /\ chip8.inst.opcode = 62053
    /\ chip8.I = 0
    /\ chip8.ram[768] = 17
    /\ chip8.ram[769] = 34
    /\ chip8.ram[770] = 51
    /\ chip8.ram[771] = 0
    /\ chip8.V[0] = 240
    /\ chip8.V[1] = 144
    /\ chip8.V[2] = 144
    /\ chip8.V[3] = 68

(* A step that executed store-BCD FX33 with I .. I + 2 inside memory *)
BcdStep ==
    /\ Stepped
    /\ Family(chip8'.inst) = 15
    /\ chip8'.inst.NN = 51
    /\ chip8.I + 2 < RAM_SIZE

(* C21: with I .. I + 2 inside memory, after FX33 each of memory[I],       *)
(* memory[I+1], memory[I+2] is a digit 0 .. 9, 100 * memory[I] + 10 *      *)
(* memory[I+1] + memory[I+2] is the value VX held, and VX and I are        *)
(* unchanged.                                                              *)
C21_StoreBcdDigits ==
    [][ BcdStep =>
          LET X == chip8'.inst.X
              m == chip8'.ram
              a == chip8.I
          IN  /\ m[a] \in 0 .. 9
              /\ m[a + 1] \in 0 .. 9
              /\ m[a + 2] \in 0 .. 9
              /\ 100 * m[a] + 10 * m[a + 1] + m[a + 2] = chip8.V[X]
              /\ chip8'.V[X] = chip8.V[X]
              /\ chip8'.I = chip8.I ]_vars

(* C21 witness: F033 has stored 1, 2, 3 at 0x300 .. 0x302 for V0 = 123.    *)
C21_Witness ==
    /\ loc = "batch"
    /\ chip8.inst.opcode = 61491
    /\ chip8.V[0] = 123
    /\ chip8.I = 768
    /\ chip8.ram[768] = 1
    /\ chip8.ram[769] = 2
    /\ chip8.ram[770] = 3

(* C22: for every X other than 0xF, 8XY6 leaves VF equal to the lowest bit *)
(* VX held and VX equal to that value >> 1, and 8XYE leaves VF equal to    *)
(* the highest bit VX held and VX equal to (that value << 1) mod 256.      *)
C22_ShiftsSetFlagFromOldValue ==
    [][ LET X == chip8'.inst.X
            a == chip8.V[X]
        IN  /\ (AluStep(6) /\ X # 15) =>
                 /\ chip8'.V[15] = a % 2
                 /\ chip8'.V[X] = a \div 2
            /\ (AluStep(14) /\ X # 15) =>
                 /\ chip8'.V[15] = a \div 128
                 /\ chip8'.V[X] = (a * 2) % 256 ]_vars

(* C22 witness: 8316 has shifted V3 = 5 right to 2 with VF = 1.            *)
C22_Witness ==
    /\ loc = "batch"
    /\ chip8.inst.opcode = 33558
    /\ chip8.V[3] = 2
    /\ chip8.V[1] = 7
    /\ chip8.V[15] = 1

(* C23: for every X other than 0xF, every Y and all values a = VX, b = VY  *)
(* held before 8XY7, afterwards VX = (b - a) mod 256 and VF = 1 if b > a,  *)
(* else 0.                                                                 *)
C23_ReverseSubtract ==
    [][ (AluStep(7) /\ chip8'.inst.X # 15) =>
          LET a == chip8.V[chip8'.inst.X]
              b == chip8.V[chip8'.inst.Y]
          IN  /\ chip8'.V[chip8'.inst.X] = (256 + b - a) % 256
              /\ chip8'.V[15] = IF b > a THEN 1 ELSE 0 ]_vars

(* The run state after one host event, as the state machine of the run     *)
(* states describes it: a quit request halts, a pause toggle flips RUNNING *)
(* and PAUSED, any other event leaves the run state alone                  *)
RunStateOn(s, e) ==
    IF e.type = "SDL_QUIT" \/ (e.type = "SDL_KEYDOWN" /\ e.sym = "ESCAPE") THEN "QUIT"
    ELSE IF e.type = "SDL_KEYDOWN" /\ e.sym = "SPACE"
    THEN (IF s = "RUNNING" THEN "PAUSED" ELSE "RUNNING")
    ELSE s

(* C24: once the machine is constructed, the run state changes only while  *)
(* host events are handled, and then only RUNNING <-> PAUSED (pause        *)
(* toggle) or RUNNING / PAUSED -> QUIT (quit request); QUIT is never left; *)
(* executing an instruction or ticking the timers never changes it.        *)
C24_RunStateFollowsHostEvents ==
    [][ LET s == chip8.state
            t == chip8'.state
        IN  /\ (Stepped \/ Ticked) => t = s
            /\ (loc # "init" /\ t # s) =>
                 /\ loc = "loop" /\ frames' = frames + 1
                 /\ << s, t >> \in { << "RUNNING", "PAUSED" >>, << "PAUSED", "RUNNING" >>,
                                     << "RUNNING", "QUIT" >>, << "PAUSED", "QUIT" >> }
            /\ (loc # "init" /\ s = "QUIT") => t = "QUIT"
            /\ (loc = "loop" /\ frames' = frames + 1) =>
                 \A e \in Events :
                    chip8' = handle_input(chip8, << e >>) => t = RunStateOn(s, e) ]_vars

(* C24 witness: the first frame was paused by a toggle before any          *)
(* instruction ran, and a toggle in the second frame has resumed the       *)
(* machine, which is about to execute its first instruction.               *)
C24_Witness ==
    /\ loc = "batch"
    /\ frames = 2
    /\ i = 0
    /\ chip8.state = "RUNNING"
    /\ chip8.PC = entry_point
    /\ chip8.ram[entry_point] = 96

(* C25: PC is advanced before the dispatch, so a call 2NNN at address p    *)
(* made with fewer than 12 calls pending stores p + 2 on top of the stack, *)
(* leaves the entries of the pending calls alone, sets PC = NNN and raises *)
(* SP by 1; a return 00EE made with 1 .. 12 calls pending sets PC to the   *)
(* top entry and lowers SP by 1 without changing the stack.  So the return *)
(* that follows a call resumes at p + 2 with SP as before the call, and    *)
(* nested calls are resumed last-in first-out.                             *)
C25_CallAndReturnAreLifo ==
    [][ /\ (CallStep /\ chip8.SP < STACK_SIZE) =>
             /\ chip8'.stack = [ chip8.stack EXCEPT ![chip8.SP] = chip8.PC + 2 ]
             /\ chip8'.PC = chip8'.inst.NNN
             /\ chip8'.SP = chip8.SP + 1
        /\ (ReturnStep /\ chip8.SP \in 1 .. STACK_SIZE) =>
             /\ chip8'.PC = chip8.stack[chip8.SP - 1]
             /\ chip8'.SP = chip8.SP - 1
             /\ chip8'.stack = chip8.stack ]_vars

(* C25 witness: seven nested calls have been made and the seventh return   *)
(* has resumed the program at 0x202, behind its call at 0x200, with SP = 0 *)
(* again; the stack still shows the return addresses in call order.        *)
C25_Witness ==
    /\ loc = "batch"
    /\ frames = 2
    /\ i = 6
    /\ chip8.inst.opcode = 238
    /\ chip8.PC = 514
    /\ chip8.SP = 0
    /\ \A j \in 0 .. 6 : chip8.stack[j] = 514 + 4 * j
    /\ chip8.stack[7] = 0

(* C26: every memory access made by an instruction (the sprite rows read   *)
(* by DXYN, the digits written by FX33, the cells written by FX55 and read *)
(* by FX65) uses an address in 0 .. RAM_SIZE - 1.                          *)
C26_MemoryAccessesInBounds == "ram" \notin oob

(* PC is at a wait-for-key instruction FX0A *)
AtWaitKey(c) ==
    /\ c.PC + 1 < RAM_SIZE
    /\ c.ram[c.PC] \div 16 = 15
    /\ c.ram[c.PC + 1] = 10

(* C27: the machine does not stay RUNNING at a wait-for-key instruction    *)
(* forever while, from some point on, at least one of the keys 0x0 .. 0xF  *)
(* is held: the instruction eventually completes and PC moves past it.     *)
C27_WaitKeyCompletes ==
    []<>(~(chip8.state = "RUNNING" /\ AtWaitKey(chip8) /\ PressedKeys(chip8) # {}))

(* The machine is RUNNING at a wait-for-key instruction with no key        *)
(* pressed                                                                 *)
Polling(c) == c.state = "RUNNING" /\ AtWaitKey(c) /\ PressedKeys(c) = {}

(* C28: while the machine is RUNNING and polls a wait-for-key instruction  *)
(* with no key pressed, every frame still runs its batch, in which each    *)
(* execution of FX0A leaves PC and both timers alone, and ends with one    *)
(* tick that lowers each nonzero timer by exactly 1 with PC still at the   *)
(* instruction; so a timer holding t > 0 is 0 after exactly t such frames. *)
C28_TimersRunWhilePolling ==
    [][ LET n == insts_per_second \div 60
            dec(t) == IF t > 0 THEN t - 1 ELSE 0
        IN  /\ (loc = "loop" /\ frames' = frames + 1 /\ Polling(chip8')) =>
                 (loc' = "batch" /\ i' = 0)
            /\ (loc = "batch" /\ Polling(chip8) /\ i < n) =>
                 /\ WaitKeyStep
                 /\ Polling(chip8')
                 /\ chip8'.PC = chip8.PC
                 /\ chip8'.delay_timer = chip8.delay_timer
                 /\ chip8'.sound_timer = chip8.sound_timer
            /\ (loc = "batch" /\ Polling(chip8) /\ i >= n) =>
                 /\ Ticked
                 /\ i = n
                 /\ chip8'.PC = chip8.PC
                 /\ chip8'.delay_timer = dec(chip8.delay_timer)
                 /\ chip8'.sound_timer = dec(chip8.sound_timer) ]_vars

(* C28 witness: the timers were set to 2 in the first frame; two frames    *)
(* have ended while the program polls FX0A at 0x206 with no key pressed,   *)
(* and both timers have reached 0.                                         *)
C28_Witness ==
    /\ loc = "loop"
    /\ frames = 2
    /\ Polling(chip8)
    /\ chip8.PC = 518
    /\ chip8.V[0] = 2
    /\ chip8.delay_timer = 0
    /\ chip8.sound_timer = 0

====
